---- MODULE Spec2Model ----
(***************************************************************************)
(* Model of the tactical decision core of py-agent-2d:                     *)
(*   - FormationStrategy (src/src/strategy/formation_strategy.py)          *)
(*   - DecisionMaker     (src/src/decision_makers/decision_maker.py)       *)
(*                                                                         *)
(* Coordinates are integers counting tenths of a metre, so the legality    *)
(* margin 0.5 is 5 and the raw x 0.3 is 3.                                 *)
(***************************************************************************)
EXTENDS Integers, Sequences, FiniteSets, TLC

VARIABLES
    selected_formation_name,  \* FormationStrategy.selected_formation_name
    formations,               \* keys of FormationStrategy.formations (the catalog)
    current_situation,        \* FormationStrategy.current_situation
    current_formation_file,   \* which of the eight definitions of the active set
    poses,                    \* FormationStrategy._poses
    wm,                       \* agent.wm as passed to the most recent update
    raw,                      \* what get_poses() returned in the most recent update
    dm_agent,                 \* agent.wm fields read by the most recent make_decision
    actions,                  \* the agent's queue of action requests
    ret,                      \* value returned by the most recent get_offside_line
    formation_choice,         \* the name _set_formation assigns
    constructed,              \* FormationStrategy.__init__ has completed
    calls,                    \* FormationFile methods invoked by the most recent update
    returned                  \* accessor calls made since the most recent update

vars == <<selected_formation_name, formations, current_situation,
          current_formation_file, poses, wm, raw, dm_agent, actions, ret,
          formation_choice, constructed, calls, returned>>

strategyVars == <<selected_formation_name, formations, current_situation,
                  current_formation_file, poses, wm, raw, formation_choice,
                  constructed, calls>>

decisionVars == <<dm_agent, actions>>

----------------------------------------------------------------------------
(* Bounds of the model *)

MaxReach == 2

MaxActions == 3

MaxLen == 3

MaxCalls == 2

----------------------------------------------------------------------------
(* Program constants *)

RosterSize == 11

LegalityMargin == 5

RosterSplit == 6

----------------------------------------------------------------------------
(* Enumerations *)

\* Situation enum
Situation ==
    {"OurSetPlay_Situation", "OppSetPlay_Situation", "Defense_Situation",
     "Offense_Situation", "PenaltyKick_Situation"}

\* The eight attributes of a Formation
FormationFiles ==
    {"before_kick_off_formation", "defense_formation", "offense_formation",
     "goalie_kick_opp_formation", "goalie_kick_our_formation",
     "kickin_our_formation", "setplay_opp_formation", "setplay_our_formation"}

\* The names _read_formations stores in the catalog
FormationNames == {"4-3-3", "4-3-3-cyrus-base", "4-3-3-helios-base"}

\* GameModeType values the code tests for, and two it does not name
GameModeType ==
    {"PlayOn", "PenaltyKick_", "KickIn_", "CornerKick_", "GoalKick_",
     "GoalieCatch_", "BeforeKickOff", "AfterGoal_", "FreeKick_", "KickOff_"}

\* wm.our_side
OurSides == {"LEFT", "RIGHT"}

\* wm.game_mode_side
ModeSides == {"UNKNOWN", "LEFT", "RIGHT"}

Slots == 1..RosterSize

----------------------------------------------------------------------------
(* Values *)

\* Vector2D(x, y)
Vector2D(px, py) == [x |-> px, y |-> py]

\* Python's min(a, b): b only when b < a
min(a, b) == IF b < a THEN b ELSE a

\* A Python dict
Dict(f) == [kind |-> "dict", items |-> f]

\* A Python set
PySet(S) == [kind |-> "set", items |-> S]

\* agent.wm before any update has been called
NoWm == [game_mode_type |-> "none"]

\* get_poses() has not been called yet
NoRaw == <<>>

\* agent.wm before any make_decision has been called
NoAgent == [game_mode_type |-> "none"]

\* get_offside_line has not returned yet; <<v>> once it has returned v
NoRet == <<>>

----------------------------------------------------------------------------
(* The world model snapshots update is called with *)

\* The fields of agent.wm that update reads.  ball_x is the x of the point
\* inertia_n_step_point predicts for all_min steps ahead.
Snapshot(mode, mside, oside, tm, opp, sf, bx, unum, off) ==
    [game_mode_type |-> mode, game_mode_side |-> mside, our_side |-> oside,
     first_teammate_reach_steps |-> tm, first_opponent_reach_steps |-> opp,
     self_reach_steps |-> sf, ball_x |-> bx, uniform_number |-> unum,
     offside_line_x |-> off]

ReachSteps == 0..MaxReach

\* predicted ball x: behind, on and beyond the centre line
BallXs == {-100, 0, 100}

\* wm.offside_line_x
OffsideLines == {-100, 0, 300}

\* x of each roster slot in two position tables a formation definition can
\* return: one spread over the field (slot 4 exactly at -0.5, slot 5 at 0.3),
\* one deep in the own half with equal entries
RawXs ==
    << <<-50, -30, -10, -5, 3, 40, 60, 80, 90, 100, 110>>,
       <<-520, -450, -450, -430, -400, -380, -350, -350, -300, -300, -250>> >>

\* FormationFile.get_poses(): roster slot -> Vector2D, all 11 slots
RawTable(k) == [n \in Slots |-> Vector2D(RawXs[k][n], 10 * (n - 6))]

RawTables == {RawTable(k) : k \in DOMAIN RawXs}

\* PlayOn cycles with every reach-step, ball and uniform-number combination
PlayOnSnapshots ==
    {Snapshot("PlayOn", "UNKNOWN", "LEFT", tm, opp, sf, bx, unum, 0) :
        tm \in ReachSteps, opp \in ReachSteps, sf \in ReachSteps,
        bx \in BallXs, unum \in Slots}

\* cycles of every game mode, side and offside line
ModeSnapshots ==
    {Snapshot(mode, mside, oside, 1, 1, 1, 0, 7, off) :
        mode \in GameModeType, mside \in ModeSides, oside \in OurSides,
        off \in OffsideLines}

\* open play, ball predicted at x = 10, reach 3/5/4, uniform number 5
ScenarioA == Snapshot("PlayOn", "UNKNOWN", "LEFT", 3, 5, 4, 100, 5, 0)

\* open play, ball predicted at x = 0, reach 5/3/6, uniform number 8
ScenarioB == Snapshot("PlayOn", "UNKNOWN", "LEFT", 5, 3, 6, 0, 8, 0)

\* the (agent.wm, get_poses() result) pairs update is run on
Inputs ==
    (PlayOnSnapshots \X {RawTable(1)})
        \cup ({ScenarioA, ScenarioB} \X {RawTable(1)})
        \cup (ModeSnapshots \X RawTables)

\* the names the selection point of _set_formation documents, and one that
\* no directory of the catalog carries
FormationChoices == FormationNames \cup {"4-4-2"}

----------------------------------------------------------------------------
(* FormationStrategy *)

\* _read_formations: the names stored in the catalog
read_formations == FormationNames

\* _set_formation: the constant selection
set_formation == "4-3-3-cyrus-base"

\* _get_current_formation: self.formations[self.selected_formation_name]
get_current_formation(cat, name) ==
    IF name \in cat THEN name ELSE "KeyError"

\* attribute `file` of the Formation `set`
FormationFile(set, file) == [set |-> set, file |-> file]

\* __init__: self._poses, a set comprehension over range(11)
init_poses == PySet({<<i, Vector2D(0, 0)>> : i \in 0..(RosterSize - 1)})

\* __init__: self.current_situation
init_situation == "Offense_Situation"

\* __init__: self.current_formation_file
init_formation_file ==
    FormationFile(get_current_formation(read_formations, set_formation),
                  "offense_formation")

\* classify with the side comparison tested before the penalty-kick mode
classify_side_first(s) ==
    IF s.game_mode_type = "PlayOn"
    THEN LET thr1 == IF s.ball_x > 0 THEN 1 ELSE 0
             thr  == IF s.uniform_number > RosterSplit THEN thr1 + 1 ELSE thr1
         IN IF min(s.first_teammate_reach_steps, s.self_reach_steps)
                 < s.first_opponent_reach_steps + thr
            THEN "Offense_Situation"
            ELSE "Defense_Situation"
    ELSE IF s.game_mode_type # "PlayOn" /\ s.game_mode_side = s.our_side
    THEN "OurSetPlay_Situation"
    ELSE IF s.game_mode_type = "PenaltyKick_"
    THEN "PenaltyKick_Situation"
    ELSE "OppSetPlay_Situation"

\* classify with uniform_number >= 6 and a non-strict reach comparison
classify_off_by_one(s) ==
    IF s.game_mode_type = "PlayOn"
    THEN LET thr1 == IF s.ball_x > 0 THEN 1 ELSE 0
             thr  == IF s.uniform_number >= RosterSplit THEN thr1 + 1 ELSE thr1
         IN IF min(s.first_teammate_reach_steps, s.self_reach_steps)
                 <= s.first_opponent_reach_steps + thr
            THEN "Offense_Situation"
            ELSE "Defense_Situation"
    ELSE IF s.game_mode_type = "PenaltyKick_"
    THEN "PenaltyKick_Situation"
    ELSE IF s.game_mode_type # "PlayOn" /\ s.game_mode_side = s.our_side
    THEN "OurSetPlay_Situation"
    ELSE "OppSetPlay_Situation"

\* update, lines 106-121: the situation of the cycle
classify(s) ==
    IF s.game_mode_type = "PlayOn"
    THEN LET thr0 == 0
             thr1 == IF s.ball_x > 0 THEN thr0 + 1 ELSE thr0
             thr  == IF s.uniform_number > RosterSplit THEN thr1 + 1 ELSE thr1
         IN IF min(s.first_teammate_reach_steps, s.self_reach_steps)
                 < s.first_opponent_reach_steps + thr
            THEN "Offense_Situation"
            ELSE "Defense_Situation"
    ELSE IF s.game_mode_type = "PenaltyKick_"
    THEN "PenaltyKick_Situation"
    ELSE IF s.game_mode_type # "PlayOn" /\ s.game_mode_side = s.our_side
    THEN "OurSetPlay_Situation"
    ELSE "OppSetPlay_Situation"

\* select_formation with the situation tests ahead of the game-mode tests
select_formation_situation_first(sit, s, f, cur) ==
    IF sit = "Offense_Situation"
    THEN FormationFile(f, "offense_formation")
    ELSE IF sit = "Defense_Situation"
    THEN FormationFile(f, "defense_formation")
    ELSE IF sit = "OppSetPlay_Situation"
    THEN FormationFile(f, "setplay_opp_formation")
    ELSE IF sit = "OurSetPlay_Situation"
    THEN FormationFile(f, "setplay_our_formation")
    ELSE cur

\* select_formation falling back to the offense formation when no branch matches
select_formation_reset(sit, s, f, cur) ==
    IF sit = "Offense_Situation"
    THEN FormationFile(f, "offense_formation")
    ELSE IF sit = "Defense_Situation"
    THEN FormationFile(f, "defense_formation")
    ELSE IF s.game_mode_type \in {"KickIn_", "CornerKick_"}
    THEN IF s.game_mode_side = s.our_side
         THEN FormationFile(f, "kickin_our_formation")
         ELSE FormationFile(f, "setplay_opp_formation")
    ELSE IF s.game_mode_type \in {"GoalKick_", "GoalieCatch_"}
    THEN IF s.game_mode_side = s.our_side
         THEN FormationFile(f, "goalie_kick_our_formation")
         ELSE FormationFile(f, "goalie_kick_opp_formation")
    ELSE IF s.game_mode_type \in {"BeforeKickOff", "AfterGoal_"}
    THEN FormationFile(f, "before_kick_off_formation")
    ELSE IF sit = "OppSetPlay_Situation"
    THEN FormationFile(f, "setplay_opp_formation")
    ELSE IF sit = "OurSetPlay_Situation"
    THEN FormationFile(f, "setplay_our_formation")
    ELSE FormationFile(f, "offense_formation")

\* select_formation assigning a local in the penalty-kick case, which leaves
\* the attribute without a definition of the active set
select_formation_unbound(sit, s, f, cur) ==
    IF sit = "PenaltyKick_Situation"
    THEN FormationFile("none", "undefined")
    ELSE select_formation_reset(sit, s, f, cur)

\* select_formation whose kick-in branch does not look at the side
select_formation_kickin_any_side(sit, s, f, cur) ==
    IF s.game_mode_type \in {"KickIn_", "CornerKick_"}
          /\ sit \notin {"Offense_Situation", "Defense_Situation"}
    THEN FormationFile(f, "kickin_our_formation")
    ELSE select_formation_reset(sit, s, f, cur)

\* select_formation without its last branch, so that our free kicks keep
\* the definition of the cycle before
select_formation_no_our_branch(sit, s, f, cur) ==
    IF sit = "OurSetPlay_Situation"
          /\ s.game_mode_type \notin
                {"KickIn_", "CornerKick_", "GoalKick_", "GoalieCatch_",
                 "BeforeKickOff", "AfterGoal_"}
    THEN cur
    ELSE select_formation_reset(sit, s, f, cur)

\* update, lines 123-142: the formation definition of the cycle; cur is
\* the one selected before the call, f the active Formation
select_formation(sit, s, f, cur) ==
    IF sit = "Offense_Situation"
    THEN FormationFile(f, "offense_formation")
    ELSE IF sit = "Defense_Situation"
    THEN FormationFile(f, "defense_formation")
    ELSE IF s.game_mode_type \in {"KickIn_", "CornerKick_"}
    THEN IF s.game_mode_side = s.our_side
         THEN FormationFile(f, "kickin_our_formation")
         ELSE FormationFile(f, "setplay_opp_formation")
    ELSE IF s.game_mode_type \in {"GoalKick_", "GoalieCatch_"}
    THEN IF s.game_mode_side = s.our_side
         THEN FormationFile(f, "goalie_kick_our_formation")
         ELSE FormationFile(f, "goalie_kick_opp_formation")
    ELSE IF s.game_mode_type \in {"BeforeKickOff", "AfterGoal_"}
    THEN FormationFile(f, "before_kick_off_formation")
    ELSE IF sit = "OppSetPlay_Situation"
    THEN FormationFile(f, "setplay_opp_formation")
    ELSE IF sit = "OurSetPlay_Situation"
    THEN FormationFile(f, "setplay_our_formation")
    ELSE cur

\* legality_bound without the before-kickoff / after-goal branch
legality_bound_offside_only(s) ==
    s.offside_line_x - LegalityMargin

\* update, lines 147-153: the ceiling every x is clamped to
legality_bound(s) ==
    IF s.game_mode_type \in {"BeforeKickOff", "AfterGoal_"}
    THEN -LegalityMargin
    ELSE s.offside_line_x - LegalityMargin

\* clamp that assigns the bound to every x
clamp_to_bound(t, s) ==
    [n \in DOMAIN t |-> Vector2D(legality_bound(s), t[n].y)]

\* clamp with max in place of min
clamp_floor(t, s) ==
    [n \in DOMAIN t |->
        Vector2D(IF t[n].x < legality_bound(s) THEN legality_bound(s) ELSE t[n].x,
                 t[n].y)]

\* update, lines 147-153: pos._x = min(pos.x(), bound) for every position
clamp(t, s) ==
    [n \in DOMAIN t |-> Vector2D(min(t[n].x, legality_bound(s)), t[n].y)]

\* collaborator_calls reading the table back before the definition is updated
collaborator_calls_read_first(file, ball) ==
    << [op |-> "get_poses", file |-> file],
       [op |-> "update", file |-> file, ball |-> ball] >>

\* update, lines 144-145: the FormationFile methods invoked, in order, on
\* the selected definition with the predicted ball point
collaborator_calls(file, ball) ==
    << [op |-> "update", file |-> file, ball |-> ball],
       [op |-> "get_poses", file |-> file] >>

\* update(agent): agent.wm is s, the selected definition returns table t
update(s, t) ==
    LET name == formation_choice
        sit  == classify(s)
        file == select_formation(sit, s,
                    get_current_formation(formations, name),
                    current_formation_file)
    IN /\ constructed
       /\ selected_formation_name' = name
       /\ current_situation' = sit
       /\ current_formation_file' = file
       /\ calls' = collaborator_calls(file, s.ball_x)
       /\ raw' = t
       /\ poses' = Dict(clamp(t, s))
       /\ wm' = s
       /\ returned' = <<>>
       /\ UNCHANGED <<formations, formation_choice, constructed, dm_agent,
                      actions, ret>>

\* construct_ok of an __init__ that defers the catalog lookup to update
construct_ok_lazy(cat, name) == TRUE

\* __init__, line 76: the lookup of the selected name in the catalog succeeds
construct_ok(cat, name) == get_current_formation(cat, name) # "KeyError"

\* self.current_formation_file when __init__ raised before assigning it
Unassigned == [set |-> "none", file |-> "unassigned"]

\* __init__ with _set_formation assigning the name `choice`
construct(choice) ==
    /\ formation_choice = choice
    /\ formations = read_formations
    /\ selected_formation_name = choice
    /\ poses = init_poses
    /\ current_situation = init_situation
    /\ constructed = construct_ok(read_formations, choice)
    /\ current_formation_file =
          IF construct_ok(read_formations, choice)
          THEN FormationFile(get_current_formation(read_formations, choice),
                             "offense_formation")
          ELSE Unassigned
    /\ wm = NoWm
    /\ raw = NoRaw
    /\ calls = <<>>
    /\ returned = <<>>
    /\ dm_agent = NoAgent
    /\ actions = <<>>
    /\ ret = NoRet

Init ==
    /\ formations = read_formations
    /\ selected_formation_name = set_formation
    /\ poses = init_poses
    /\ current_situation = init_situation
    /\ current_formation_file = init_formation_file
    /\ wm = NoWm
    /\ raw = NoRaw
    /\ dm_agent = NoAgent
    /\ actions = <<>>
    /\ ret = NoRet
    /\ formation_choice = set_formation
    /\ constructed = construct_ok(read_formations, set_formation)
    /\ calls = <<>>
    /\ returned = <<>>

Next == \E inp \in Inputs : update(inp[1], inp[2])

Spec == Init /\ [][Next]_vars

\* construction with any of the choices, then cycles of every game mode
InitStartup == \E choice \in FormationChoices : construct(choice)

NextStartup == \E inp \in ModeSnapshots \X RawTables : update(inp[1], inp[2])

SpecStartup == InitStartup /\ [][NextStartup]_vars

----------------------------------------------------------------------------
(* FormationStrategy.get_offside_line *)

RECURSIVE insert_sorted(_, _)
\* x put into its place in the ascending list s
insert_sorted(x, s) ==
    IF s = <<>> THEN <<x>>
    ELSE IF x <= Head(s) THEN <<x>> \o s
    ELSE <<Head(s)>> \o insert_sorted(x, Tail(s))

RECURSIVE sort(_)
\* list.sort(): ascending, equal entries kept
sort(s) == IF s = <<>> THEN <<>> ELSE insert_sorted(Head(s), sort(Tail(s)))

\* [pos.x() for pos in self._poses.values()], for a dict keyed 1..n
home_poses_x(p) == [i \in 1..Cardinality(DOMAIN p.items) |-> p.items[i].x]

\* get_offside_line that drops equal entries before indexing
get_offside_line_distinct(p) ==
    LET xs == home_poses_x(p)
        S  == {xs[i] : i \in DOMAIN xs}
        lo == CHOOSE v \in S : \A w \in S : v <= w
    IN IF Cardinality(S) > 1
       THEN CHOOSE v \in S \ {lo} : \A w \in S \ {lo} : v <= w
       ELSE IF Cardinality(S) = 1 THEN lo
       ELSE 0

\* get_offside_line(): the value returned for the position table p
get_offside_line(p) ==
    LET sorted == sort(home_poses_x(p))
    IN IF Len(sorted) > 1 THEN sorted[2]
       ELSE IF Len(sorted) = 1 THEN sorted[1]
       ELSE 0

\* x-coordinates the tables of the accessor's own specification are built of
OffsideXs == {-50, -30, 0, 20}

\* the x-values of scenario D, in metres times ten, out of order
ScenarioD == <<0, -50, 110, 20, -10, 40, 100, 60, -30, 90, 80>>

\* a position table holding the x-values xs, keyed 1..Len(xs)
TableOf(xs) == Dict([i \in DOMAIN xs |-> Vector2D(xs[i], 0)])

\* position tables of 0..MaxLen entries, and scenario D
OffsideTables ==
    {TableOf(xs) : xs \in UNION {[1..n -> OffsideXs] : n \in 0..MaxLen}}
        \cup {TableOf(ScenarioD)}

\* a call of get_offside_line
call_get_offside_line ==
    /\ ret = NoRet
    /\ poses.kind = "dict"
    /\ ret' = <<get_offside_line(poses)>>
    /\ UNCHANGED <<strategyVars, decisionVars, returned>>

InitOffside ==
    /\ formations = read_formations
    /\ selected_formation_name = set_formation
    /\ poses \in OffsideTables
    /\ current_situation = init_situation
    /\ current_formation_file = init_formation_file
    /\ wm = NoWm
    /\ raw = NoRaw
    /\ dm_agent = NoAgent
    /\ actions = <<>>
    /\ ret = NoRet
    /\ formation_choice = set_formation
    /\ constructed = construct_ok(read_formations, set_formation)
    /\ calls = <<>>
    /\ returned = <<>>

NextOffside == call_get_offside_line

SpecOffside == InitOffside /\ [][NextOffside]_vars

----------------------------------------------------------------------------
(* FormationStrategy accessors *)

\* FormationFile.get_role(n): the role descriptor of slot n in a definition
RoleOf(file, n) ==
    [name |-> <<file.file, n>>,
     type |-> IF n = 1 THEN "G" ELSE IF n <= 5 THEN "DF"
              ELSE IF n <= 8 THEN "MF" ELSE "FW",
     side |-> IF n \in {1, 2, 6, 11} THEN "C" ELSE IF n % 2 = 1 THEN "L" ELSE "R",
     pair |-> IF n \in {1, 2, 6, 11} THEN 0 ELSE IF n % 2 = 1 THEN n + 1 ELSE n - 1]

\* what an accessor hands back: <<"ok", value>> or the exception raised
Returned(v) == <<"ok", v>>

Raised(e) == <<e>>

\* get_position(uniform_number): self._poses[uniform_number]
get_position(p, n) ==
    IF p.kind # "dict" THEN Raised("TypeError")
    ELSE IF n \in DOMAIN p.items THEN Returned(p.items[n])
    ELSE Raised("KeyError")

\* get_role(uniform_number): self.current_formation_file.get_role(uniform_number)
get_role(file, n) ==
    IF n \in Slots THEN Returned(RoleOf(file, n)) ELSE Raised("KeyError")

\* get_role_name, get_role_type, get_role_side, get_role_pair: one attribute
\* of get_role(uniform_number)
get_role_attribute(file, n, attr) ==
    IF get_role(file, n)[1] = "ok"
    THEN Returned(get_role(file, n)[2][attr])
    ELSE get_role(file, n)

\* the accessors that take a roster slot
SlotAccessors ==
    {"get_position", "get_role", "get_role_name", "get_role_type",
     "get_role_side", "get_role_pair"}

\* the value of a call of accessor op with slot n
accessor_value(op, n, file, p) ==
    CASE op = "get_position" -> get_position(p, n)
      [] op = "get_role" -> get_role(file, n)
      [] op = "get_role_name" -> get_role_attribute(file, n, "name")
      [] op = "get_role_type" -> get_role_attribute(file, n, "type")
      [] op = "get_role_side" -> get_role_attribute(file, n, "side")
      [] op = "get_role_pair" -> get_role_attribute(file, n, "pair")
      [] op = "get_offside_line" ->
            IF p.kind # "dict" THEN Raised("AttributeError")
            ELSE Returned(get_offside_line(p))

\* get_position written as self._poses.pop(uniform_number)
poses_after_pop(op, n, p) ==
    IF op = "get_position" /\ p.kind = "dict" /\ n \in DOMAIN p.items
    THEN Dict([k \in DOMAIN p.items \ {n} |-> p.items[k]])
    ELSE p

\* get_position written as self._poses.setdefault(uniform_number, Vector2D(0, 0))
poses_after_setdefault(op, n, p) ==
    IF op = "get_position" /\ p.kind = "dict" /\ n \notin DOMAIN p.items
    THEN Dict([k \in DOMAIN p.items \cup {n} |->
                  IF k = n THEN Vector2D(0, 0) ELSE p.items[k]])
    ELSE p

\* self._poses after a call of accessor op: no accessor assigns to self, and
\* get_offside_line sorts a list of its own
poses_after(op, n, p) == p

\* the slots the accessors are called with: below, inside and above 1..11
CallSlots == {0, 7, 12}

\* the accessor calls made: get_offside_line takes no slot
AccessorCalls == (SlotAccessors \X CallSlots) \cup {<<"get_offside_line", 0>>}

\* a call of the accessor op with slot n
call_accessor(op, n) ==
    /\ constructed
    /\ Len(returned) < MaxCalls
    /\ returned' = Append(returned,
          [op |-> op, slot |-> n,
           value |-> accessor_value(op, n, current_formation_file, poses)])
    /\ poses' = poses_after(op, n, poses)
    /\ UNCHANGED <<selected_formation_name, formations, current_situation,
                   current_formation_file, wm, raw, formation_choice,
                   constructed, calls, decisionVars, ret>>

\* the cycles the accessors are called in: open play, a penalty kick and a
\* kickoff, with both position tables
AccessorInputs ==
    {Snapshot(mode, "LEFT", "LEFT", 1, 1, 1, 0, 7, 0) :
        mode \in {"PlayOn", "PenaltyKick_", "BeforeKickOff"}} \X RawTables

NextAccessors ==
    \/ \E inp \in AccessorInputs : update(inp[1], inp[2])
    \/ \E c \in AccessorCalls : call_accessor(c[1], c[2])

SpecAccessors == Init /\ [][NextAccessors]_vars

----------------------------------------------------------------------------
(* DecisionMaker *)

\* the fields of agent.wm that make_decision reads
Agents ==
    [is_goalie : BOOLEAN, game_mode_type : GameModeType,
     is_penalty_kick_mode : BOOLEAN]

\* agent.add_action(a): one more request on the agent's queue q
add_action(q, a) == Append(q, a)

\* PlayOnDecisionMaker.make_decision(agent)
play_on_decision_maker(q) == add_action(q, "play_on")

\* PenaltyDecisionMaker.make_decision(agent)
penalty_decision_maker(q) == add_action(q, "penalty")

\* SetPlayDecisionMaker.make_decision(agent)
set_play_decision_maker(q) == add_action(q, "set_play")

\* dispatch with the penalty-kick flag tested before the game mode
dispatch_penalty_first(a, q) ==
    IF a.is_goalie
    THEN add_action(q, "helios_goalie")
    ELSE IF a.is_penalty_kick_mode
    THEN penalty_decision_maker(q)
    ELSE IF a.game_mode_type = "PlayOn"
    THEN play_on_decision_maker(q)
    ELSE set_play_decision_maker(q)

\* dispatch whose goalie test is a separate `if`, not the head of the chain
dispatch_fallthrough(a, q) ==
    LET q1 == IF a.is_goalie THEN add_action(q, "helios_goalie") ELSE q
    IN IF a.game_mode_type = "PlayOn"
       THEN play_on_decision_maker(q1)
       ELSE IF a.is_penalty_kick_mode
       THEN penalty_decision_maker(q1)
       ELSE set_play_decision_maker(q1)

\* make_decision, lines 31-38: the queue after the call, q before it
dispatch(a, q) ==
    IF a.is_goalie
    THEN add_action(q, "helios_goalie")
    ELSE IF a.game_mode_type = "PlayOn"
    THEN play_on_decision_maker(q)
    ELSE IF a.is_penalty_kick_mode
    THEN penalty_decision_maker(q)
    ELSE set_play_decision_maker(q)

\* make_decision(agent)
make_decision(a) ==
    /\ Len(actions) < MaxActions
    /\ actions' = dispatch(a, actions)
    /\ dm_agent' = a
    /\ UNCHANGED <<strategyVars, ret, returned>>

NextDecision == \E a \in Agents : make_decision(a)

SpecDecision == Init /\ [][NextDecision]_vars

----------------------------------------------------------------------------
(* Properties of FormationStrategy *)

\* update has run at least once
Updated == wm.game_mode_type # "none"

\* the set-play side of the last cycle is the own side
SideIsOurs == wm.game_mode_side = wm.our_side

\* C3: after every update the situation follows the game mode: Offense or
\* Defense iff PlayOn; PenaltyKick iff PenaltyKick_ (whatever the side);
\* OurSetPlay iff neither of those modes and the set-play side is the own
\* side; OppSetPlay in every remaining case.
C3_SituationByMode ==
    Updated =>
        /\ current_situation \in {"Offense_Situation", "Defense_Situation"}
              <=> wm.game_mode_type = "PlayOn"
        /\ current_situation = "PenaltyKick_Situation"
              <=> wm.game_mode_type = "PenaltyKick_"
        /\ current_situation = "OurSetPlay_Situation"
              <=> (wm.game_mode_type \notin {"PlayOn", "PenaltyKick_"} /\ SideIsOurs)
        /\ current_situation = "OppSetPlay_Situation"
              <=> (wm.game_mode_type \notin {"PlayOn", "PenaltyKick_"} /\ ~SideIsOurs)

\* a penalty-kick cycle whose set-play side is the own side
C3_Witness ==
    /\ Updated
    /\ wm.game_mode_type = "PenaltyKick_"
    /\ SideIsOurs
    /\ current_situation = "PenaltyKick_Situation"

\* the threshold the claim states for the last cycle
C4_Threshold ==
    (IF wm.ball_x > 0 THEN 1 ELSE 0) + (IF wm.uniform_number > 6 THEN 1 ELSE 0)

\* C4: in a PlayOn cycle the situation is Offense exactly when the teammate
\* or the agent itself reaches the ball in strictly fewer steps than the
\* opponent's steps plus the threshold (0, 1 or 2), and Defense otherwise,
\* ties included; scenario B (reach 5/3/6, number 8, ball x = 0) is Defense
\* and scenario A (reach 3/5/4, number 5, ball x = 10) is Offense.
C4_OffenseByReach ==
    (Updated /\ wm.game_mode_type = "PlayOn") =>
        LET tm  == wm.first_teammate_reach_steps
            sf  == wm.self_reach_steps
            opp == wm.first_opponent_reach_steps
            least == IF tm <= sf THEN tm ELSE sf
        IN /\ C4_Threshold \in 0..2
           /\ (wm.ball_x = 0 /\ wm.uniform_number = 6) => C4_Threshold = 0
           /\ current_situation = "Offense_Situation"
                 <=> least < opp + C4_Threshold
           /\ current_situation = "Defense_Situation"
                 <=> least >= opp + C4_Threshold
           /\ wm = ScenarioA => current_situation = "Offense_Situation"
           /\ wm = ScenarioB => current_situation = "Defense_Situation"

\* a tie at threshold 2: Defense
C4_Witness ==
    /\ Updated
    /\ wm.game_mode_type = "PlayOn"
    /\ wm.ball_x > 0
    /\ wm.uniform_number = 7
    /\ wm.first_teammate_reach_steps = wm.first_opponent_reach_steps + 2
    /\ wm.self_reach_steps = wm.first_opponent_reach_steps + 2
    /\ current_situation = "Defense_Situation"

\* the table of the claim, first match
C5_Table ==
    CASE current_situation = "Offense_Situation" -> "offense_formation"
      [] current_situation = "Defense_Situation" -> "defense_formation"
      [] wm.game_mode_type \in {"KickIn_", "CornerKick_"} ->
            IF SideIsOurs THEN "kickin_our_formation" ELSE "setplay_opp_formation"
      [] wm.game_mode_type \in {"GoalKick_", "GoalieCatch_"} ->
            IF SideIsOurs THEN "goalie_kick_our_formation"
                          ELSE "goalie_kick_opp_formation"
      [] wm.game_mode_type \in {"BeforeKickOff", "AfterGoal_"} ->
            "before_kick_off_formation"
      [] current_situation = "OppSetPlay_Situation" -> "setplay_opp_formation"
      [] current_situation = "OurSetPlay_Situation" -> "setplay_our_formation"
      [] OTHER -> "no match"

\* C5: after every update of a cycle that is not a penalty-kick cycle, the
\* selected definition is the one the precedence table gives for the cycle's
\* situation, game mode and side, in the active set; set-play-ours is selected
\* only when the side is ours and the mode is none of KickIn, CornerKick,
\* GoalKick, GoalieCatch, BeforeKickOff, AfterGoal.
C5_FormationByTable ==
    (Updated /\ wm.game_mode_type # "PenaltyKick_") =>
        /\ current_formation_file = FormationFile("4-3-3-cyrus-base", C5_Table)
        /\ current_formation_file.file = "setplay_our_formation" =>
              /\ SideIsOurs
              /\ wm.game_mode_type \notin
                    {"KickIn_", "CornerKick_", "GoalKick_", "GoalieCatch_",
                     "BeforeKickOff", "AfterGoal_"}

\* our corner kick: the kick-in formation, although the situation is OurSetPlay
C5_Witness ==
    /\ Updated
    /\ wm.game_mode_type = "CornerKick_"
    /\ SideIsOurs
    /\ current_situation = "OurSetPlay_Situation"
    /\ current_formation_file.file = "kickin_our_formation"

\* C6: a penalty-kick cycle sets the situation to PenaltyKick and leaves the
\* selected definition as it was before the call; before any cycle it is the
\* offense formation chosen at construction.
C6_PenaltyCarriesOver ==
    /\ current_formation_file = FormationFile("4-3-3-cyrus-base", "offense_formation")
    /\ [][wm'.game_mode_type = "PenaltyKick_" =>
            /\ current_situation' = "PenaltyKick_Situation"
            /\ current_formation_file' = current_formation_file]_vars

\* a penalty-kick cycle that still holds the kick-in formation of an earlier cycle
C6_Witness ==
    /\ Updated
    /\ wm.game_mode_type = "PenaltyKick_"
    /\ current_situation = "PenaltyKick_Situation"
    /\ current_formation_file.file = "kickin_our_formation"

\* C7: in every reachable state the situation is one of the five Situation
\* values and the selected definition is one of the eight definitions of the
\* active formation set, never undefined.
C7_AlwaysDefined ==
    /\ current_situation \in Situation
    /\ current_formation_file.file \in FormationFiles
    /\ current_formation_file.set = selected_formation_name
    /\ selected_formation_name \in formations

\* a penalty-kick cycle, where no branch of the selector matches
C7_Witness ==
    /\ Updated
    /\ current_situation = "PenaltyKick_Situation"
    /\ current_formation_file.file = "setplay_opp_formation"

\* C8: after every update every stored x is at most -0.5 in BeforeKickOff and
\* AfterGoal cycles and at most offside_line_x - 0.5 in every other cycle; a
\* raw x of 0.3 in a before-kickoff cycle is stored as -0.5.
C8_LegalityBound ==
    Updated =>
        /\ \A n \in Slots :
              poses.items[n].x <=
                 (IF wm.game_mode_type \in {"BeforeKickOff", "AfterGoal_"}
                  THEN -5 ELSE wm.offside_line_x - 5)
        /\ \A n \in Slots :
              (wm.game_mode_type = "BeforeKickOff" /\ raw[n].x = 3)
                 => poses.items[n].x = -5

\* scenario C with the offside line far upfield
C8_Witness ==
    /\ Updated
    /\ wm.game_mode_type = "BeforeKickOff"
    /\ wm.offside_line_x = 300
    /\ \E n \in Slots : raw[n].x = 3 /\ poses.items[n].x = -5

\* C9: in every reachable state, from construction onward, the position table
\* is a mapping whose keys are exactly the roster slots 1..11.
C9_TableCoversRoster ==
    /\ poses.kind = "dict"
    /\ DOMAIN poses.items = Slots

----------------------------------------------------------------------------
(* Further properties of FormationStrategy *)

\* C12: a name absent from the catalog makes construction fail, and then no
\* cycle ever runs; once construction has completed, the name every update
\* re-assigns is a key of the catalog and the selected definition always
\* belongs to a set of the catalog, so no update fails on an unknown name.
C12_UnknownNameFailsAtStartup ==
    /\ constructed <=> formation_choice \in formations
    /\ ~constructed => (~Updated /\ current_formation_file = Unassigned)
    /\ constructed =>
          /\ selected_formation_name \in formations
          /\ selected_formation_name = formation_choice
          /\ current_formation_file.set \in formations

\* construction with a name no catalog entry carries
C12_Witness ==
    /\ ~constructed
    /\ formation_choice \notin formations
    /\ selected_formation_name = formation_choice

\* the legality bound the claims state for the last cycle
ClaimedBound ==
    IF wm.game_mode_type \in {"BeforeKickOff", "AfterGoal_"}
    THEN -5
    ELSE wm.offside_line_x - 5

\* C14: for every roster slot the stored x is the smaller of the raw x and
\* the cycle's bound, so a raw x at or below the bound is stored unchanged and
\* no x is raised; the stored y is the raw y.
C14_CeilingOnly ==
    Updated =>
        \A n \in Slots :
            /\ poses.items[n].x =
                  (IF raw[n].x <= ClaimedBound THEN raw[n].x ELSE ClaimedBound)
            /\ poses.items[n].x <= raw[n].x
            /\ poses.items[n].y = raw[n].y

\* a cycle that lowers one slot and leaves another, already legal, as it was
C14_Witness ==
    /\ Updated
    /\ \E n \in Slots : raw[n].x > ClaimedBound /\ poses.items[n].x = ClaimedBound
    /\ \E n \in Slots : raw[n].x < ClaimedBound /\ poses.items[n].x = raw[n].x

\* C15: every cycle invokes update exactly once, on the definition selected
\* for the cycle and with the cycle's predicted ball point, and then reads the
\* table back from that same definition; no method of any other definition is
\* invoked, and the catalog's keys stay as they are.
C15_OneUpdateOnSelected ==
    [][/\ Len(calls') = 2
       /\ calls'[1] = [op |-> "update", file |-> current_formation_file',
                       ball |-> wm'.ball_x]
       /\ calls'[2] = [op |-> "get_poses", file |-> current_formation_file']
       /\ \A i \in 1..Len(calls') :
             calls'[i].file.set = selected_formation_name'
       /\ formations' = formations]_vars

\* a penalty-kick cycle that updates the kick-in definition carried over
C15_Witness ==
    /\ Updated
    /\ wm.game_mode_type = "PenaltyKick_"
    /\ current_formation_file.file = "kickin_our_formation"
    /\ Len(calls) = 2
    /\ calls[1].op = "update"
    /\ calls[1].file = current_formation_file

\* C16: in every reachable state Offense goes with the offense formation,
\* Defense with the defense formation, OurSetPlay with one of kick-in-ours,
\* goalie-kick-ours, before-kickoff, set-play-ours, and OppSetPlay with one of
\* set-play-opponent's, goalie-kick-opponent's, before-kickoff.
C16_SituationMatchesFormation ==
    /\ current_situation = "Offense_Situation"
          => current_formation_file.file = "offense_formation"
    /\ current_situation = "Defense_Situation"
          => current_formation_file.file = "defense_formation"
    /\ current_situation = "OurSetPlay_Situation"
          => current_formation_file.file \in
                {"kickin_our_formation", "goalie_kick_our_formation",
                 "before_kick_off_formation", "setplay_our_formation"}
    /\ current_situation = "OppSetPlay_Situation"
          => current_formation_file.file \in
                {"setplay_opp_formation", "goalie_kick_opp_formation",
                 "before_kick_off_formation"}

\* the opponent's kick-in: OppSetPlay with the set-play-opponent's formation
C16_Witness ==
    /\ Updated
    /\ wm.game_mode_type = "KickIn_"
    /\ ~SideIsOurs
    /\ current_situation = "OppSetPlay_Situation"
    /\ current_formation_file.file = "setplay_opp_formation"

\* the situation a snapshot alone determines
C17_Situation(s) ==
    IF s.game_mode_type = "PlayOn"
    THEN IF \E r \in {s.first_teammate_reach_steps, s.self_reach_steps} :
               r < s.first_opponent_reach_steps
                     + (IF s.ball_x > 0 THEN 1 ELSE 0)
                     + (IF s.uniform_number > 6 THEN 1 ELSE 0)
         THEN "Offense_Situation" ELSE "Defense_Situation"
    ELSE IF s.game_mode_side = s.our_side
    THEN "OurSetPlay_Situation" ELSE "OppSetPlay_Situation"

\* the definition a non-penalty snapshot alone determines
C17_File(s) ==
    LET ours == s.game_mode_side = s.our_side
    IN CASE s.game_mode_type = "PlayOn" ->
               IF C17_Situation(s) = "Offense_Situation"
               THEN "offense_formation" ELSE "defense_formation"
         [] s.game_mode_type \in {"KickIn_", "CornerKick_"} ->
               IF ours THEN "kickin_our_formation" ELSE "setplay_opp_formation"
         [] s.game_mode_type \in {"GoalKick_", "GoalieCatch_"} ->
               IF ours THEN "goalie_kick_our_formation"
                       ELSE "goalie_kick_opp_formation"
         [] s.game_mode_type \in {"BeforeKickOff", "AfterGoal_"} ->
               "before_kick_off_formation"
         [] OTHER ->
               IF ours THEN "setplay_our_formation" ELSE "setplay_opp_formation"

\* C17: after the update of a cycle that is not a penalty-kick cycle, the
\* situation and the selected definition are a function of that cycle's
\* snapshot alone, whatever cycles came before.
C17_SnapshotDetermines ==
    (Updated /\ wm.game_mode_type # "PenaltyKick_") =>
        /\ current_situation = C17_Situation(wm)
        /\ current_formation_file.file = C17_File(wm)
        /\ current_formation_file.set = "4-3-3-cyrus-base"

\* our free kick: the last branch of the selector
C17_Witness ==
    /\ Updated
    /\ wm.game_mode_type = "FreeKick_"
    /\ SideIsOurs
    /\ current_situation = "OurSetPlay_Situation"
    /\ current_formation_file.file = "setplay_our_formation"

\* C18: after every update the offside reference get_offside_line returns is
\* at most the cycle's legality bound: -0.5 in BeforeKickOff and AfterGoal
\* cycles, offside_line_x - 0.5 in all others.
C18_OffsideReferenceBounded ==
    Updated => get_offside_line(poses) <= ClaimedBound

\* every slot clamped to the bound, which the reference then equals
C18_Witness ==
    /\ Updated
    /\ wm.offside_line_x = -100
    /\ wm.game_mode_type = "PlayOn"
    /\ \E n \in Slots : raw[n].x > ClaimedBound
    /\ get_offside_line(poses) = -105

----------------------------------------------------------------------------
(* Properties of the accessors *)

\* the step is an accessor call
AccessorStep == Len(returned') = Len(returned) + 1

\* the call an accessor step has just logged
NewCall == returned'[Len(returned')]

\* C11: an accessor call changes neither the situation, the selected
\* definition nor the position table, and returns what every earlier call of
\* the same accessor with the same slot returned since the last update.
C11_AccessorsIdempotent ==
    [][AccessorStep =>
          /\ current_situation' = current_situation
          /\ current_formation_file' = current_formation_file
          /\ poses' = poses
          /\ \A i \in 1..Len(returned) :
                (returned[i].op = NewCall.op /\ returned[i].slot = NewCall.slot)
                   => returned[i].value = NewCall.value]_vars

\* get_role_name(7) answered twice alike within one cycle
C11_Witness ==
    /\ Updated
    /\ Len(returned) = 2
    /\ returned[1].op = "get_role_name"
    /\ returned[1].slot = 7
    /\ returned[2] = returned[1]
    /\ returned[1].value[1] = "ok"

\* C13: after at least one update, get_position for a slot outside 1..11
\* raises KeyError and leaves the situation, the selected definition and the
\* position table as they were; for a slot in 1..11 it returns a position.
C13_OutOfRangeSlotRaises ==
    [][(Updated /\ AccessorStep /\ NewCall.op = "get_position") =>
          /\ NewCall.slot \in Slots =>
                (NewCall.value[1] = "ok" /\ NewCall.value[2] = poses.items[NewCall.slot])
          /\ NewCall.slot \notin Slots =>
                /\ NewCall.value = <<"KeyError">>
                /\ current_situation' = current_situation
                /\ current_formation_file' = current_formation_file
                /\ poses' = poses]_vars

\* get_position(12) has raised KeyError after an update
C13_Witness ==
    /\ Updated
    /\ Len(returned) >= 1
    /\ returned[1].op = "get_position"
    /\ returned[1].slot = 12
    /\ returned[1].value = <<"KeyError">>
    /\ poses.kind = "dict"
    /\ DOMAIN poses.items = Slots

----------------------------------------------------------------------------
(* Properties of get_offside_line *)

\* the x-values of the table get_offside_line was called on
C10_Xs == home_poses_x(poses)

\* C10: get_offside_line returns the second entry of the ascending order of
\* the table's x-values, equal entries counted separately (at most one entry
\* lies strictly below it and at least two lie at or below it); the single x
\* of a one-entry table; 0.0 for an empty table; -3 for scenario D.
C10_SecondSmallest ==
    ret # NoRet =>
        LET v == ret[1]
            n == Len(C10_Xs)
        IN /\ n = 0 => v = 0
           /\ n = 1 => v = C10_Xs[1]
           /\ n >= 2 =>
                 /\ \E i \in 1..n : C10_Xs[i] = v
                 /\ Cardinality({i \in 1..n : C10_Xs[i] < v}) <= 1
                 /\ Cardinality({i \in 1..n : C10_Xs[i] <= v}) >= 2
           /\ poses = TableOf(ScenarioD) => v = -30
           /\ poses = TableOf(<<-50, 20, -50>>) => v = -50

\* scenario D answered
C10_Witness ==
    /\ ret # NoRet
    /\ poses = TableOf(ScenarioD)
    /\ ret[1] = -30

----------------------------------------------------------------------------
(* Properties of DecisionMaker *)

\* make_decision has run at least once
Decided == dm_agent.game_mode_type # "none"

\* the branch the claim names for the agent of the last call
C1_Branch ==
    IF dm_agent.is_goalie THEN "helios_goalie"
    ELSE IF dm_agent.game_mode_type = "PlayOn" THEN "play_on"
    ELSE IF dm_agent.is_penalty_kick_mode THEN "penalty"
    ELSE "set_play"

\* C1: the request a call enqueues is the goalie action for a goalie whatever
\* the mode and the penalty flag, else the play-on collaborator's in PlayOn
\* even with the penalty flag set, else the penalty collaborator's iff the
\* penalty flag is set, else the set-play collaborator's.
C1_FirstMatchWins ==
    Decided =>
        /\ actions # <<>>
        /\ actions[Len(actions)] = C1_Branch
        /\ dm_agent.is_goalie => actions[Len(actions)] = "helios_goalie"
        /\ (~dm_agent.is_goalie /\ dm_agent.game_mode_type = "PlayOn")
              => actions[Len(actions)] = "play_on"
        /\ (~dm_agent.is_goalie /\ dm_agent.game_mode_type # "PlayOn")
              => (actions[Len(actions)] = "penalty"
                     <=> dm_agent.is_penalty_kick_mode)

\* a field player in PlayOn with the penalty flag set
C1_Witness ==
    /\ Decided
    /\ ~dm_agent.is_goalie
    /\ dm_agent.game_mode_type = "PlayOn"
    /\ dm_agent.is_penalty_kick_mode
    /\ actions[Len(actions)] = "play_on"

\* C2: every call of make_decision lengthens the agent's queue by exactly one
\* request and leaves the requests already queued in place.
C2_ExactlyOneAction ==
    [][/\ Len(actions') = Len(actions) + 1
       /\ SubSeq(actions', 1, Len(actions)) = actions]_vars

\* a goalie's call in PlayOn with the penalty flag set, after an earlier call
C2_Witness ==
    /\ Decided
    /\ dm_agent.is_goalie
    /\ dm_agent.game_mode_type = "PlayOn"
    /\ dm_agent.is_penalty_kick_mode
    /\ Len(actions) = 2
    /\ actions[2] = "helios_goalie"

====
